---- MODULE Spec2Model ----
(***************************************************************************)
(* Model of the terminal text editor of vasiltop/shark (src/editor.rs).    *)
(*                                                                         *)
(* The editor keeps a rope (a sequence of characters), a scroll offset and *)
(* uses the terminal's own cursor as its cursor; one call of Editor::step  *)
(* handles one input event.  An arithmetic overflow of a usize panics in a *)
(* build with overflow checks and wraps in a build without them: `build`   *)
(* is chosen once, and a wrapped usize 2^64 + v (v < 0) is written v.      *)
(***************************************************************************)
EXTENDS Integers, Sequences, FiniteSets, TLC

\* ---- bounds of the model ----
MaxFileLen == 4
MaxRopeLen == 4
MaxWidth == 3
MaxHeight == 2

\* ---- characters ----
CR == "\r"
LF == "\n"
\* a character whose UTF-8 encoding takes two bytes (U+00E9)
EAcute == "U+00E9"

FileChars == {"a", CR, LF}
KeyChars == {"a", EAcute}

Files == UNION {[1..n -> FileChars] : n \in 0..MaxFileLen}
Texts == UNION {[1..n -> FileChars \cup KeyChars] : n \in 0..MaxFileLen}
Builds == {"debug", "release"}
TermSizes == (2..MaxWidth) \X (1..MaxHeight)

VARIABLES
    rope,     \* Editor.rope: the buffer, a sequence of characters
    scroll,   \* Editor.scroll: absolute row of the first displayed line
    pos,      \* cursor::position(): the terminal cursor <<column, row>>
    size,     \* terminal::size(): <<columns, rows>>
    build,    \* "debug": overflow checks on; "release": wrapping arithmetic
    input,    \* round trip only: the text handed to Editor::new
    written,  \* round trip only: the bytes save wrote, <<"none">> before it
    event,    \* the event handled by the last call of step
    running,  \* FALSE once step has returned Ok(false)
    panic,    \* "none", or the kind of panic that ended the program
    tree,     \* redraw only: what parser.parse returned, <<>> for None and
              \* <<root>> for a tree with this root node
    nodes,    \* redraw only: the entries the loop of redraw has still to visit
    last_pos, \* redraw only: the local last_pos of redraw
    printed   \* redraw only: the slices <<start, end>> redraw asked the rope for

vars == <<rope, scroll, pos, size, build, input, written, event, running, panic,
          tree, nodes, last_pos, printed>>

\* the variables of redraw
redraw_vars == <<tree, nodes, last_pos, printed>>

Max(a, b) == IF a > b THEN a ELSE b
Min(a, b) == IF a < b THEN a ELSE b

\* ---- UTF-8 ----
Utf8(c) ==
    CASE c = CR -> <<13>>
      [] c = LF -> <<10>>
      [] c = EAcute -> <<195, 169>>
      [] OTHER -> <<97>>

RECURSIVE bytes(_)
bytes(s) == IF s = <<>> THEN <<>> ELSE Utf8(Head(s)) \o bytes(Tail(s))

\* String::len of a slice of the rope: its length in bytes
ByteLen(s) == Len(bytes(s))

\* ---- usize / u16 arithmetic ----
\* a < b on usize values, where a negative v stands for the wrapped 2^64 + v
UsizeLt(a, b) ==
    IF (a < 0) = (b < 0) THEN a < b ELSE b < 0

AsU16(v) == v % 65536

\* ---- ropey ----
\* a line break ends at index i: LF, CR LF, or a CR not followed by LF
IsBreak(s, i) ==
    \/ s[i] = LF
    \/ s[i] = CR /\ (i = Len(s) \/ s[i + 1] # LF)

RECURSIVE lines(_)
lines(s) ==
    LET ends == {i \in 1..Len(s) : IsBreak(s, i)}
    IN  IF ends = {} THEN <<s>>
        ELSE LET i == CHOOSE j \in ends : \A k \in ends : j <= k
             IN  <<SubSeq(s, 1, i)>> \o lines(SubSeq(s, i + 1, Len(s)))

insert(s, idx, text) ==
    SubSeq(s, 1, idx) \o text \o SubSeq(s, idx + 1, Len(s))

remove(s, start, end) ==
    SubSeq(s, 1, start) \o SubSeq(s, end + 1, Len(s))

\* ---- crossterm cursor commands on a terminal of the given size ----
\* a MoveUp that leaves the cursor where it is
MoveUp_stay(p) == p

MoveUp(p) == <<p[1], Max(p[2] - 1, 0)>>
\* a MoveDown that leaves the cursor where it is
MoveDown_stay(p) == p

MoveDown(p) == <<p[1], Min(p[2] + 1, size[2] - 1)>>
MoveLeft(p) == <<Max(p[1] - 1, 0), p[2]>>
MoveRight(p) == <<Min(p[1] + 1, size[1] - 1), p[2]>>
MoveToColumn(p, c) == <<Min(c, size[1] - 1), p[2]>>
MoveTo(c, r) == <<Min(c, size[1] - 1), Min(r, size[2] - 1)>>

\* ---- Editor ----
RECURSIVE InsertCRs(_)
InsertCRs(s) ==
    IF s = <<>> THEN <<>>
    ELSE IF Head(s) = LF THEN <<CR, LF>> \o InsertCRs(Tail(s))
    ELSE <<Head(s)>> \o InsertCRs(Tail(s))

\* Editor::new: a carriage return is inserted before every line feed
new(text) == InsertCRs(text)

\* a save that writes the rope as it is, carriage returns included
save_keep_cr(r) == bytes(r)

\* Editor::save: every byte of the rope except the carriage returns
save(r) == SelectSeq(bytes(r), LAMBDA b : b # 13)

\* the editor while step runs: e.panic # "none" once a call has panicked
Ed(r, s, p) == [rope |-> r, scroll |-> s, pos |-> p, panic |-> "none"]

get_line_number(e) == e.pos[2] + e.scroll

RECURSIVE SumLen(_, _)
SumLen(ls, n) == IF n = 0 THEN 0 ELSE Len(ls[n]) + SumLen(ls, n - 1)

\* the loop of get_rope_index: line i (counted from 0) is the next line, count
\* the characters of the lines before it
RECURSIVE rope_index_loop(_, _, _, _)
rope_index_loop(ls, i, count, p) ==
    IF i >= Len(ls) THEN count
    ELSE IF i >= p[2] THEN count + p[1]
    ELSE rope_index_loop(ls, i + 1, count + Len(ls[i + 1]), p)

\* a get_rope_index that forgets the column
get_rope_index_row_only(r, p) == rope_index_loop(lines(r), 0, 0, <<0, p[2]>>)

get_rope_index(r, p) == rope_index_loop(lines(r), 0, 0, p)

get_cursor_index(e) == get_rope_index(e.rope, <<e.pos[1], e.pos[2] + e.scroll>>)

\* get_line(..).unwrap().to_string().len() - 2
get_current_line_len(e) ==
    LET ls == lines(e.rope)
        n == get_line_number(e)
    IN  IF n >= Len(ls) THEN [panic |-> "unwrap_none", val |-> 0]
        ELSE IF ByteLen(ls[n + 1]) < 2 /\ build = "debug"
             THEN [panic |-> "overflow", val |-> 0]
        ELSE [panic |-> "none", val |-> ByteLen(ls[n + 1]) - 2]

attempt_cursor_move(e, movement) ==
    IF e.panic # "none" THEN e
    ELSE CASE movement = "Up" ->
                [e EXCEPT !.scroll = IF e.pos[2] = 0 THEN Max(@ - 1, 0) ELSE @,
                          !.pos = MoveUp(@)]
           [] movement = "Down" ->
                LET n == Len(lines(e.rope))
                IN  IF n < 2 /\ build = "debug" THEN [e EXCEPT !.panic = "overflow"]
                    ELSE IF UsizeLt(get_line_number(e), n - 2)
                         THEN [e EXCEPT !.scroll = IF e.pos[2] = size[2] - 1
                                                   THEN @ + 1 ELSE @,
                                        !.pos = MoveDown(@)]
                    ELSE e
           [] movement = "Left" -> [e EXCEPT !.pos = MoveLeft(@)]
           [] movement = "Right" ->
                LET l == get_current_line_len(e)
                IN  IF l.panic # "none" THEN [e EXCEPT !.panic = l.panic]
                    ELSE IF e.pos[1] < AsU16(l.val)
                         THEN [e EXCEPT !.pos = MoveRight(@)]
                    ELSE e

\* Rope::insert / Rope::insert_char: panics when idx is past the end
rope_insert(e, idx, text) ==
    IF e.panic # "none" THEN e
    ELSE IF idx < 0 \/ idx > Len(e.rope) THEN [e EXCEPT !.panic = "out_of_range"]
    ELSE [e EXCEPT !.rope = insert(@, idx, text)]

\* Rope::remove(idx - before .. idx + after): the subtraction idx - before
\* overflows below 0, and remove panics on a range that is not inside the rope
rope_remove(e, idx, before, after) ==
    IF e.panic # "none" THEN e
    ELSE IF idx < before /\ build = "debug" THEN [e EXCEPT !.panic = "overflow"]
    ELSE IF idx < before \/ idx + after > Len(e.rope)
         THEN [e EXCEPT !.panic = "out_of_range"]
    ELSE [e EXCEPT !.rope = remove(@, idx - before, idx + after)]

\* let line_length = self.get_current_line_len()?;
\* execute!(self.stdout, cursor::MoveToColumn(line_length as u16))?;
move_to_line_end(e) ==
    IF e.panic # "none" THEN e
    ELSE LET l == get_current_line_len(e)
         IN  IF l.panic # "none" THEN [e EXCEPT !.panic = l.panic]
             ELSE [e EXCEPT !.pos = MoveToColumn(@, AsU16(l.val))]

\* KeyCode::Char(c), not Ctrl+S
step_char(e, c) ==
    attempt_cursor_move(rope_insert(e, get_cursor_index(e), <<c>>), "Right")

\* a Ctrl+S that types the character s
step_save_types_s(e) == step_char(e, "s")

\* KeyCode::Char('s') with the Control modifier: save reads the rope and writes
\* the file; the editor is left as it is
step_save(e) == e

\* KeyCode::Enter
step_enter(e) ==
    LET e1 == attempt_cursor_move(rope_insert(e, get_cursor_index(e), <<CR, LF>>),
                                  "Down")
    IN  IF e1.panic # "none" THEN e1 ELSE [e1 EXCEPT !.pos = MoveToColumn(@, 0)]

\* if pos.1 == 0 { self.scroll -= 1; }
scroll_back(e) ==
    [e EXCEPT !.scroll = IF e.pos[2] = 0 THEN @ - 1 ELSE @]

\* KeyCode::Backspace
step_backspace(e) ==
    LET idx == get_cursor_index(e)
        l == get_current_line_len(e)
    IN  IF e.pos[1] > 0
        THEN attempt_cursor_move(rope_remove(e, idx, 1, 0), "Left")
        ELSE IF l.panic # "none" THEN [e EXCEPT !.panic = l.panic]
        ELSE IF l.val = 0 /\ get_line_number(e) # 0
        THEN move_to_line_end(
                 attempt_cursor_move(rope_remove(scroll_back(e), idx, 0, 2), "Up"))
        ELSE IF get_line_number(e) # 0
        THEN rope_remove(
                 move_to_line_end(attempt_cursor_move(scroll_back(e), "Up")),
                 idx, 2, 0)
        ELSE e

\* the end of step: the column is clamped to the current line's length
clamp_column(e) ==
    IF e.panic # "none" THEN e
    ELSE LET l == get_current_line_len(e)
         IN  IF l.panic # "none" THEN [e EXCEPT !.panic = l.panic]
             ELSE [e EXCEPT !.pos = MoveTo(Min(e.pos[1], AsU16(l.val)), e.pos[2])]

\* Editor::step on one event; Esc and Ctrl+S are the actions KeyEsc and KeyCtrlS
step(e, ev) ==
    IF e.panic # "none" THEN e
    ELSE clamp_column(
        CASE ev = "Up" -> attempt_cursor_move(e, "Up")
          [] ev = "Down" -> attempt_cursor_move(e, "Down")
          [] ev = "Left" -> attempt_cursor_move(e, "Left")
          [] ev = "Right" -> attempt_cursor_move(e, "Right")
          [] ev = "Enter" -> step_enter(e)
          [] ev = "Backspace" -> step_backspace(e)
          [] ev \in KeyChars -> step_char(e, ev)
          [] ev = "CtrlS" -> step_save(e)
          [] OTHER -> e)

\* ---- the editing state machine ----
\* the text uses LF or CR LF as its line terminator: no lone carriage return
LfOrCrLf(s) == \A i \in 1..Len(s) : s[i] = CR => (i < Len(s) /\ s[i + 1] = LF)

\* the state after Editor::new and Editor::init on some LF or CR LF file; what
\* is on disk is left out of this specification (see RoundTripSpec)
Init ==
    /\ \E f \in Files : LfOrCrLf(f) /\ rope = new(f)
    /\ scroll = 0
    /\ pos = <<0, 0>>
    /\ size \in TermSizes
    /\ build \in Builds
    /\ input = <<>>
    /\ written = <<>>
    /\ event = "init"
    /\ running = TRUE
    /\ panic = "none"
    /\ tree = <<>>
    /\ nodes = <<>>
    /\ last_pos = 0
    /\ printed = <<>>

Alive == running /\ panic = "none"

Handle(ev) ==
    /\ Alive
    /\ LET e == step(Ed(rope, scroll, pos), ev)
       IN  /\ rope' = e.rope
           /\ scroll' = e.scroll
           /\ pos' = e.pos
           /\ panic' = e.panic
    /\ event' = (IF ev \in KeyChars THEN "Char" ELSE ev)
    /\ UNCHANGED <<size, build, input, written, running>>
    /\ UNCHANGED redraw_vars

KeyUp == Handle("Up")
KeyDown == Handle("Down")
KeyLeft == Handle("Left")
KeyRight == Handle("Right")
KeyChar == \E c \in KeyChars : Len(rope) < MaxRopeLen /\ Handle(c)
KeyEnter == Len(rope) + 2 <= MaxRopeLen /\ Handle("Enter")
KeyBackspace == Handle("Backspace")

\* Ctrl+S: save leaves the editor alone, then the clamp at the end of step
KeyCtrlS == Handle("CtrlS")

\* Esc: step returns Ok(false) before the clamp
KeyEsc ==
    /\ Alive
    /\ running' = FALSE
    /\ event' = "Esc"
    /\ UNCHANGED <<rope, scroll, pos, size, build, input, written, panic>>
    /\ UNCHANGED redraw_vars

\* any other event: a key release, an unhandled key code, a resize
OtherEvent == Handle("Other")

Next ==
    \/ KeyUp
    \/ KeyDown
    \/ KeyLeft
    \/ KeyRight
    \/ KeyChar
    \/ KeyEnter
    \/ KeyBackspace
    \/ KeyCtrlS
    \/ KeyEsc
    \/ OtherEvent

Spec == Init /\ [][Next]_vars

\* ---- the round trip new / save ----
RoundTripInit ==
    /\ input \in Texts
    /\ rope = input
    /\ written = <<"none">>
    /\ scroll = 0
    /\ pos = <<0, 0>>
    /\ size = <<MaxWidth, MaxHeight>>
    /\ build = "debug"
    /\ event = "start"
    /\ running = TRUE
    /\ panic = "none"
    /\ tree = <<>>
    /\ nodes = <<>>
    /\ last_pos = 0
    /\ printed = <<>>

\* Editor::new(stdout, rope, filename)
Load ==
    /\ event = "start"
    /\ rope' = new(rope)
    /\ event' = "new"
    /\ UNCHANGED <<scroll, pos, size, build, input, written, running, panic>>
    /\ UNCHANGED redraw_vars

\* Editor::save
Save ==
    /\ event = "new"
    /\ written' = save(rope)
    /\ event' = "save"
    /\ UNCHANGED <<rope, scroll, pos, size, build, input, running, panic>>
    /\ UNCHANGED redraw_vars

RoundTripNext ==
    \/ Load
    \/ Save

RoundTripSpec == RoundTripInit /\ [][RoundTripNext]_vars

\* ---- notions the claims use ----
\* the width of the line break that ends a line: 2 for CR LF, 1 for a lone
\* CR or LF, 0 for the last line
TerminatorLen(line) ==
    IF Len(line) >= 2 /\ line[Len(line) - 1] = CR /\ line[Len(line)] = LF THEN 2
    ELSE IF Len(line) >= 1 /\ line[Len(line)] \in {CR, LF} THEN 1
    ELSE 0

\* the length of a line without its terminator
ContentLen(line) == Len(line) - TerminatorLen(line)

LineCount == Len(lines(rope))
CursorLine == scroll + pos[2]

\* C1: after every handled event the cursor column is at most the length of
\* the line the cursor is on, terminator excluded.
C1_ColumnWithinLine ==
    (Alive /\ event # "init") =>
        /\ CursorLine < LineCount
        /\ pos[1] <= ContentLen(lines(rope)[CursorLine + 1])

\* C2: the viewport row is inside the viewport, the cursor's absolute row is
\* a line of the buffer, and it is not the empty line that follows the last
\* line break.  A state with panic # "none" is the state the editor died in:
\* the cursor and scroll are where the handler had put them.
C2_RowWithinBuffer ==
    /\ 0 <= pos[2] /\ pos[2] < size[2]
    /\ CursorLine < LineCount
    /\ (LineCount >= 2 /\ lines(rope)[LineCount] = <<>>) => CursorLine < LineCount - 1

\* C3: no key press makes the editor call a buffer insert or remove with an
\* index outside the buffer.
C3_NoOutOfRange == panic # "out_of_range"

Range(s) == {s[i] : i \in 1..Len(s)}

\* C4: loading a text without carriage returns and saving it at once writes
\* exactly the bytes of the text.
C4_RoundTrip ==
    (event = "save" /\ CR \notin Range(input)) => written = bytes(input)

C4_Witness ==
    /\ event = "save"
    /\ {"a", LF} \subseteq Range(input)
    /\ CR \notin Range(input)
    /\ rope # input
    /\ written = bytes(input)

\* every line feed follows a carriage return and every carriage return is
\* followed by a line feed
WellTerminated(s) ==
    \A i \in 1..Len(s) :
        /\ s[i] = LF => (i > 1 /\ s[i - 1] = CR)
        /\ s[i] = CR => (i < Len(s) /\ s[i + 1] = LF)

\* C5: after load every line terminator of the buffer is exactly CR LF,
\* whether the file used LF or CR LF.
C5_TerminatorsNormalised ==
    (event # "start" /\ LfOrCrLf(input)) => WellTerminated(rope)

RECURSIVE TypeAll(_, _)
TypeAll(e, cs) == IF cs = <<>> THEN e ELSE TypeAll(step(e, Head(cs)), Tail(cs))

RECURSIVE BackspaceN(_, _)
BackspaceN(e, n) == IF n = 0 THEN e ELSE BackspaceN(step(e, "Backspace"), n - 1)

\* C6: from any reachable state, typing n characters and then pressing
\* Backspace n times (n = 1, 2) gives back the saved output, the column and the row.
C6_TypeThenBackspace ==
    Alive =>
        \A n \in 1..2 : \A cs \in [1..n -> KeyChars] :
            LET e == BackspaceN(TypeAll(Ed(rope, scroll, pos), cs), n)
            IN  /\ e.panic = "none"
                /\ save(e.rope) = save(rope)
                /\ e.pos = pos
                /\ e.scroll = scroll

\* Backspace is pressed with the cursor at column 0 of a line that is not the first
BackspaceAtLineStart ==
    /\ Alive
    /\ event' = "Backspace"
    /\ pos[1] = 0
    /\ CursorLine > 0
    /\ CursorLine < LineCount

\* the buffer of the claims' examples: every terminator is CR LF and every
\* character takes one byte
PlainBuffer == WellTerminated(rope) /\ EAcute \notin Range(rope)

\* C7: Backspace at column 0 of a line other than the first removes exactly the
\* two-character terminator of the previous line, the line count drops by one
\* and the column becomes the length the previous line had.  Stated for a
\* plain buffer whose previous line fits in the terminal's width.
C7_BackspaceJoinsLines ==
    [][(/\ BackspaceAtLineStart
        /\ PlainBuffer
        /\ ContentLen(lines(rope)[CursorLine]) < size[1]) =>
        LET idx == get_rope_index(rope, <<0, CursorLine>>)
        IN  /\ panic' = "none"
            /\ rope' = remove(rope, idx - 2, idx)
            /\ Len(lines(rope')) = LineCount - 1
            /\ pos'[1] = ContentLen(lines(rope)[CursorLine])]_vars

\* C8: Backspace at column 0 on viewport row 0 with scroll > 0 decrements
\* scroll by exactly one and keeps row 0; on a viewport row > 0 it decrements
\* the row by one and leaves scroll unchanged.  Stated for a buffer whose
\* terminators are all CR LF.
C8_BackspaceScroll ==
    [][(BackspaceAtLineStart /\ WellTerminated(rope) /\ panic' = "none") =>
        /\ (pos[2] = 0 /\ scroll > 0) => (scroll' = scroll - 1 /\ pos'[2] = 0)
        /\ pos[2] > 0 => (pos'[2] = pos[2] - 1 /\ scroll' = scroll)]_vars

\* C9: Backspace at absolute row 0, column 0 changes nothing.
C9_BackspaceAtOrigin ==
    [][(Alive /\ event' = "Backspace" /\ pos = <<0, 0>> /\ scroll = 0) =>
        /\ panic' = "none"
        /\ rope' = rope
        /\ pos' = pos
        /\ scroll' = scroll]_vars

\* C10: Down on the last content row changes nothing, also in a buffer whose
\* last line has no terminator and in an empty buffer.
C10_DownAtLastRow ==
    [][(Alive /\ event' = "Down" /\ CursorLine + 2 >= LineCount) =>
        /\ panic' = "none"
        /\ rope' = rope
        /\ pos' = pos
        /\ scroll' = scroll]_vars

\* Down is pressed with at least one more content row below the cursor
DownWithRowBelow ==
    /\ Alive
    /\ event' = "Down"
    /\ CursorLine + 2 < LineCount

C12_UpScrolls ==
    [][(Alive /\ event' = "Up") =>
        /\ (pos[2] = 0 /\ scroll > 0) => (scroll' = scroll - 1 /\ pos'[2] = 0)
        /\ pos[2] > 0 => (pos'[2] = pos[2] - 1 /\ scroll' = scroll)
        /\ (pos[2] = 0 /\ scroll = 0) => (scroll' = 0 /\ pos'[2] = 0)
        /\ rope' = rope]_vars

\* on a terminal one row high, Up has brought scroll from 2 to 1
C12_Witness ==
    /\ Alive
    /\ event = "Up"
    /\ size[2] = 1
    /\ scroll = 1
    /\ pos[2] = 0

\* the length, terminator excluded, of the line the cursor is on
CursorLineLen == ContentLen(lines(rope)[CursorLine + 1])

\* Left or Right is pressed on a line of the buffer that fits in the terminal,
\* and the step does not panic
LeftOrRight ==
    /\ Alive
    /\ event' \in {"Left", "Right"}
    /\ CursorLine < LineCount
    /\ CursorLineLen < size[1]
    /\ panic' = "none"

\* C13: Left and Right change the column by exactly one when the result stays
\* inside [0, length of the current line] and otherwise change nothing; they
\* never change the viewport row, scroll or the buffer.
C13_LeftRight ==
    [][LeftOrRight =>
        /\ event' = "Left" =>
              pos'[1] = (IF pos[1] > 0 THEN pos[1] - 1 ELSE pos[1])
        /\ event' = "Right" =>
              pos'[1] = (IF pos[1] < CursorLineLen THEN pos[1] + 1 ELSE pos[1])
        /\ pos'[2] = pos[2]
        /\ scroll' = scroll
        /\ rope' = rope]_vars

\* Enter is pressed with the cursor on a line of the buffer, inside the line
EnterInLine ==
    /\ Alive
    /\ event' = "Enter"
    /\ CursorLine < LineCount
    /\ pos[1] <= CursorLineLen

\* C14: Enter at column c of absolute row r inserts exactly one CR LF at the
\* cursor's offset, so that row r keeps the first c characters of the old line
\* and row r + 1 holds the rest; afterwards the column is 0 and the absolute
\* row is r + 1, reached by scroll on the last visible row and by the viewport
\* row otherwise.
C14_EnterSplitsLine ==
    [][EnterInLine =>
        LET line == lines(rope)[CursorLine + 1]
            idx == SumLen(lines(rope), CursorLine) + pos[1]
        IN  /\ panic' = "none"
            /\ rope' = insert(rope, idx, <<CR, LF>>)
            /\ lines(rope')[CursorLine + 1] = SubSeq(line, 1, pos[1]) \o <<CR, LF>>
            /\ lines(rope')[CursorLine + 2] = SubSeq(line, pos[1] + 1, Len(line))
            /\ pos'[1] = 0
            /\ scroll' + pos'[2] = CursorLine + 1
            /\ pos[2] = size[2] - 1 => (scroll' = scroll + 1 /\ pos'[2] = pos[2])
            /\ pos[2] < size[2] - 1 => (pos'[2] = pos[2] + 1 /\ scroll' = scroll)]_vars

\* C15: in every reachable state the current line's length (stored length
\* minus 2) is computed without an overflow fault and is >= 0, and the last
\* navigable row (line count minus 2) is computed without a fault and
\* saturates at 0, so that Down does nothing in a buffer of a single line.
C15_SaturatingArithmetic ==
    Alive =>
        LET e == Ed(rope, scroll, pos)
            l == get_current_line_len(e)
        IN  /\ CursorLine < LineCount => (l.panic = "none" /\ l.val >= 0)
            /\ attempt_cursor_move(e, "Down").panic = "none"
            /\ LineCount < 2 => attempt_cursor_move(e, "Down") = e

\* ---- redraw ----
MaxNodes == 2
MaxRedrawFileLen == 3

\* the files redraw is run on: one-byte characters and LF terminators
RedrawFiles == {f \in Files : Len(f) <= MaxRedrawFileLen /\ CR \notin Range(f)}

\* tree_sitter::Point of the character offset o of the text r: the row counts
\* the line feeds before o, the column the bytes after the last of them
Point(r, o) ==
    LET lfs == {i \in 1..o : r[i] = LF}
        from == IF lfs = {} THEN 0 ELSE CHOOSE i \in lfs : \A j \in lfs : j <= i
    IN  [row |-> Cardinality(lfs), column |-> ByteLen(SubSeq(r, from + 1, o))]

\* a childless node that spans the offsets a..b of the text
Leaf(r, a, b) ==
    [start_position |-> Point(r, a), end_position |-> Point(r, b), children |-> <<>>]

\* the lists of up to MaxNodes childless nodes in document order: non-empty
\* spans of the text that do not overlap
LeafLists(r) ==
    UNION {{[k \in 1..n |-> Leaf(r, cs[2 * k - 1], cs[2 * k])] :
                cs \in {c \in [1..(2 * n) -> 0..Len(r)] :
                            /\ \A k \in 1..n : c[2 * k - 1] < c[2 * k]
                            /\ \A k \in 1..(n - 1) : c[2 * k] <= c[2 * k + 1]}} :
           n \in 0..MaxNodes}

\* a node whose children are the nodes of ls: it spans from the start of the
\* first to the end of the last
Wrap(ls) ==
    [start_position |-> ls[1].start_position,
     end_position |-> ls[Len(ls)].end_position,
     children |-> ls]

\* the ways to hang the childless nodes of l under one parent: each child is
\* one of them, or a node that wraps some consecutive ones
RECURSIVE Kids(_)
Kids(l) ==
    IF l = <<>> THEN {<<>>}
    ELSE UNION {{<<first>> \o rest :
                    first \in {Wrap(SubSeq(l, 1, k))} \cup (IF k = 1 THEN {l[1]} ELSE {}),
                    rest \in Kids(SubSeq(l, k + 1, Len(l)))} :
                k \in 1..Len(l)}

\* the root node of a tree over the text r
Root(r, kids) ==
    [start_position |-> Point(r, 0), end_position |-> Point(r, Len(r)), children |-> kids]

\* syntax trees over the text r: the children of a node are ordered by
\* position and lie inside their parent
Trees(r) == {Root(r, kids) : kids \in UNION {Kids(l) : l \in LeafLists(r)}}

\* Editor::expand_node: the node itself when it has no child, then the
\* expansion of every child in turn
RECURSIVE expand_node(_)
RECURSIVE expand_children(_)
expand_children(cs) ==
    IF cs = <<>> THEN <<>> ELSE expand_node(Head(cs)) \o expand_children(Tail(cs))

\* an expand_node that returns every node of the tree
expand_node_all(node) == <<node>> \o expand_children(node.children)

expand_node(node) ==
    (IF Len(node.children) = 0 THEN <<node>> ELSE <<>>) \o expand_children(node.children)

\* redraw is entered with some buffer, scroll and terminal height; the parser
\* will return None or some tree
RedrawInit ==
    /\ \E f \in RedrawFiles :
          /\ rope = new(f)
          /\ scroll \in 0..(Len(lines(new(f))) - 1)
          /\ tree \in {<<>>} \cup {<<t>> : t \in Trees(new(f))}
    /\ pos = <<0, 0>>
    /\ size \in {MaxWidth} \X (1..MaxHeight)
    /\ build \in Builds
    /\ input = <<>>
    /\ written = <<>>
    /\ event = "redraw"
    /\ running = TRUE
    /\ panic = "none"
    /\ nodes = <<>>
    /\ last_pos = 0
    /\ printed = <<>>

\* parser.parse(..).unwrap() on a tree, expand_node, and the first last_pos
RedrawParse ==
    /\ event = "redraw"
    /\ tree # <<>>
    /\ nodes' = expand_node(tree[1])
    /\ last_pos' = get_rope_index(rope, <<0, scroll>>)
    /\ event' = "loop"
    /\ UNCHANGED <<rope, scroll, pos, size, build, input, written, running, panic,
                   tree, printed>>

\* parser.parse(..).unwrap() on None
RedrawParseNone ==
    /\ event = "redraw"
    /\ tree = <<>>
    /\ panic' = "unwrap_none"
    /\ event' = "parse"
    /\ UNCHANGED <<rope, scroll, pos, size, build, input, written, running,
                   tree, nodes, last_pos, printed>>

\* the node starts on a row of the window scroll .. scroll + height - 1
InWindow(node) ==
    /\ node.start_position.row >= scroll
    /\ node.start_position.row <= scroll + size[2] - 1

\* one turn of the loop on a node outside the window: continue
RedrawSkip ==
    /\ event = "loop"
    /\ panic = "none"
    /\ nodes # <<>>
    /\ ~InWindow(Head(nodes))
    /\ nodes' = Tail(nodes)
    /\ UNCHANGED <<rope, scroll, pos, size, build, input, written, event, running,
                   panic, tree, last_pos, printed>>

\* one turn of the loop on a node of the window: the gap last_pos..index is
\* printed when it is not empty, then the slice index..index + diff
RedrawPrint ==
    /\ event = "loop"
    /\ panic = "none"
    /\ nodes # <<>>
    /\ InWindow(Head(nodes))
    /\ LET node == Head(nodes)
           index == get_rope_index(rope, <<node.start_position.column,
                                           node.start_position.row>>)
           diff == node.end_position.column - node.start_position.column
           end == index + diff
           gap == IF index > last_pos THEN <<<<last_pos, index>>>> ELSE <<>>
       IN  IF diff < 0 /\ build = "debug"
           THEN /\ panic' = "overflow"
                /\ printed' = printed \o gap
                /\ UNCHANGED <<nodes, last_pos>>
           ELSE IF end < index \/ end > Len(rope)
           THEN /\ panic' = "out_of_range"
                /\ printed' = printed \o gap \o <<<<index, end>>>>
                /\ UNCHANGED <<nodes, last_pos>>
           ELSE /\ printed' = printed \o gap \o <<<<index, end>>>>
                /\ last_pos' = end
                /\ nodes' = Tail(nodes)
                /\ UNCHANGED panic
    /\ UNCHANGED <<rope, scroll, pos, size, build, input, written, event, running,
                   tree>>

\* the loop is over: the cursor is restored and stdout flushed
RedrawEnd ==
    /\ event = "loop"
    /\ panic = "none"
    /\ nodes = <<>>
    /\ event' = "done"
    /\ UNCHANGED <<rope, scroll, pos, size, build, input, written, running, panic,
                   tree, nodes, last_pos, printed>>

RedrawNext ==
    \/ RedrawParse
    \/ RedrawParseNone
    \/ RedrawSkip
    \/ RedrawPrint
    \/ RedrawEnd

RedrawSpec == RedrawInit /\ [][RedrawNext]_vars

\* C16: the slices redraw asks the rope for are well formed (start <= end),
\* lie at or after the offset of (0, scroll), are pairwise disjoint and in
\* ascending order, and asking for them never faults, also when an entry spans
\* more than one line.
C16_DisjointSlices ==
    /\ panic \notin {"overflow", "out_of_range"}
    /\ \A i \in 1..Len(printed) :
          /\ printed[i][1] <= printed[i][2]
          /\ printed[i][1] >= get_rope_index(rope, <<0, scroll>>)
          /\ \A j \in (i + 1)..Len(printed) : printed[i][2] <= printed[j][1]

\* C17: when the parser returns no tree, redraw does not crash and emits the
\* buffer as a single untagged span.
C17_ParseFailure ==
    (tree = <<>> /\ event # "redraw") =>
        /\ panic = "none"
        /\ printed = <<<<0, Len(rope)>>>>

MaxColumn == 3

\* the position <<column, row>> of the character offset o of the text r: the
\* row is the number of line breaks before o, the column the distance from
\* the last of them (Rope::char_to_line and Rope::line_to_char)
offset_to_position(r, o) ==
    LET ends == {i \in 1..o : IsBreak(r, i)}
        from == IF ends = {} THEN 0 ELSE CHOOSE i \in ends : \A j \in ends : j <= i
    IN  <<o - from, Cardinality(ends)>>

\* C18: get_rope_index(column, row) is the sum of the stored lengths,
\* terminators included, of the lines before row, plus column, for every row
\* of the buffer; every offset of the buffer, translated to its position and
\* back, gives the offset; and get_rope_index is injective on the positions
\* inside the lines of the buffer.
C18_RopeIndexRoundTrip ==
    LET ls == lines(rope)
        inside == {p \in (0..MaxColumn) \X (0..(Len(ls) - 1)) : p[1] < Len(ls[p[2] + 1])}
    IN  /\ \A row \in 0..(Len(ls) - 1) : \A col \in 0..MaxColumn :
              get_rope_index(rope, <<col, row>>) = SumLen(ls, row) + col
        /\ \A o \in 0..Len(rope) :
              get_rope_index(rope, offset_to_position(rope, o)) = o
        /\ \A p \in inside : \A q \in inside :
              get_rope_index(rope, p) = get_rope_index(rope, q) => p = q

\* an edit has used get_cursor_index in a buffer of three lines of different
\* lengths
C18_Witness ==
    /\ Alive
    /\ event \in {"Char", "Enter", "Backspace"}
    /\ LineCount = 3
    /\ Len(lines(rope)[1]) > Len(lines(rope)[2])
    /\ Len(lines(rope)[2]) > Len(lines(rope)[3])
    /\ scroll + pos[2] = 1

\* the nodes of the tree under a node, the node included
RECURSIVE NodesOf(_)
NodesOf(node) ==
    {node} \cup UNION {NodesOf(node.children[i]) : i \in 1..Len(node.children)}

\* tree_sitter::Point order: by row, then by column
PointLt(a, b) == a.row < b.row \/ (a.row = b.row /\ a.column < b.column)

\* C19: expand_node applied to the root of a tree returns exactly the
\* childless nodes of the tree, each once, in ascending order of
\* (start row, start column).
C19_ExpandNodeLeaves ==
    tree # <<>> =>
        LET out == expand_node(tree[1])
            leaves == {n \in NodesOf(tree[1]) : Len(n.children) = 0}
        IN  /\ Range(out) = leaves
            /\ Len(out) = Cardinality(leaves)
            /\ \A i \in 1..Len(out) : \A j \in (i + 1)..Len(out) :
                  PointLt(out[i].start_position, out[j].start_position)

\* redraw has expanded a tree with two childless nodes, one of them under a
\* child of the root that is not childless
C19_Witness ==
    /\ event = "loop"
    /\ tree # <<>>
    /\ nodes = expand_node(tree[1])
    /\ Len(nodes) = 2
    /\ \E i \in 1..Len(tree[1].children) : tree[1].children[i].children # <<>>
    /\ nodes[1] \notin Range(tree[1].children)

\* the events that are not edits
NonEdits == {"Up", "Down", "Left", "Right", "CtrlS", "Esc", "Other"}

\* C20: an event that is not an edit (an arrow key, Ctrl+S, Esc, a key event
\* that is not a press, an unhandled key code) leaves the buffer text
\* unchanged, and Ctrl+S also leaves the column, the viewport row and scroll
\* unchanged.
C20_NonEditsKeepBuffer ==
    [][(Alive /\ event' \in NonEdits) =>
        /\ rope' = rope
        /\ event' = "CtrlS" => (pos' = pos /\ scroll' = scroll)]_vars

\* Ctrl+S has been handled with the cursor away from the origin in a scrolled
\* buffer that is not empty
C20_Witness ==
    /\ Alive
    /\ event = "CtrlS"
    /\ pos[1] > 0
    /\ scroll > 0
    /\ rope # <<>>
====
